---- MODULE Spec2Model ----
(***************************************************************************)
(* HLS-1024 (src/main.rs): parameter initialisation through three          *)
(* OnceLock cells, padding and block splitting, absorption, the round      *)
(* function, finalisation and digest extraction.                           *)
(*                                                                         *)
(* Scale.  TLC's integers are 32 bits wide and the program computes on     *)
(* 64-bit words and a 768-bit modulus, so the model is the same program at *)
(* a smaller scale: a byte has ByteBits bits instead of 8 (a word is still *)
(* WordBytes = 8 bytes, the absorb shift is still two bytes, 0x80 is still *)
(* the top bit of a byte and 0x01 the bottom one), the embedded prime is   *)
(* the four-digit hexadecimal constant PrimeHex instead of a 192-digit one,*)
(* and the state vector has StateSize elements instead of 512.  The two    *)
(* SHAKE functions are not computed: SHAKE128's output for the "init"      *)
(* seed is an unknown fixed byte string, chosen once in Init, and a        *)
(* SHAKE256 digest is the term that names its input and its length.        *)
(***************************************************************************)
EXTENDS Integers, Sequences, FiniteSets, TLC

\* ------------------------------------------------------------------ scale
ByteBits == 2
StateSize == 10
MaxCalls == 2
MaxHashCalls == 3
MaxBits == 5
MaxTail == 2

\* ------------------------------------------------------- program constants
RoundCount == 16
FinalizePasses == 4
OutputBitLength == 1024
BlockBytes == 64
WordBytes == 8
RolStep == 3
DiffuseShift == 3
ConfuseAdd == 17
SeedString == "HLS-1024-v0.2"

ByteBase == 2 ^ ByteBits
BitsPerOctet == ByteBits
AbsorbShift == 2 * ByteBits
PadFirst == 1
PadLast == 2 ^ (ByteBits - 1)

\* --------------------------------------------------- BigUint arithmetic
RECURSIVE BitXor(_, _)
BitXor(a, b) ==
    IF a = 0 THEN b
    ELSE IF b = 0 THEN a
    ELSE (IF (a % 2) = (b % 2) THEN 0 ELSE 1) + (2 * BitXor(a \div 2, b \div 2))

RECURSIVE BitOr(_, _)
BitOr(a, b) ==
    IF a = 0 THEN b
    ELSE IF b = 0 THEN a
    ELSE (IF (a % 2) = 1 \/ (b % 2) = 1 THEN 1 ELSE 0) + (2 * BitOr(a \div 2, b \div 2))

RECURSIVE BitAnd(_, _)
BitAnd(a, b) ==
    IF a = 0 \/ b = 0 THEN 0
    ELSE (IF (a % 2) = 1 /\ (b % 2) = 1 THEN 1 ELSE 0) + (2 * BitAnd(a \div 2, b \div 2))

Shl(x, r) == x * (2 ^ r)

Shr(x, r) == x \div (2 ^ r)

RECURSIVE BitLength(_)
BitLength(x) == IF x = 0 THEN 0 ELSE 1 + BitLength(x \div 2)

\* (a * b) % p without leaving 31 bits, for a, b < p < 2^15
MulMod(a, b, p) == (a * b) % p

RECURSIVE ModPow(_, _, _)
ModPow(x, e, p) == IF e = 0 THEN 1 % p ELSE MulMod(ModPow(x, e - 1, p), x % p, p)

\* BigUint::from_bytes_be
RECURSIVE FromBytesBE(_)
FromBytesBE(bs) ==
    IF Len(bs) = 0 THEN 0
    ELSE (FromBytesBE(SubSeq(bs, 1, Len(bs) - 1)) * ByteBase) + bs[Len(bs)]

\* BigUint::to_bytes_be: the shortest big-endian form, one zero byte for 0
RECURSIVE ToBytesBE(_)
ToBytesBE(v) ==
    IF v < ByteBase THEN <<v>>
    ELSE Append(ToBytesBE(v \div ByteBase), v % ByteBase)

Zeros(n) == [i \in 1..n |-> 0]

\* ------------------------------------------------------------ parameters
PrimeHex == <<"7", "F", "E", "D">>

HexDigit(ch) ==
    CASE ch = "0" -> 0 [] ch = "1" -> 1 [] ch = "2" -> 2 [] ch = "3" -> 3
      [] ch = "4" -> 4 [] ch = "5" -> 5 [] ch = "6" -> 6 [] ch = "7" -> 7
      [] ch = "8" -> 8 [] ch = "9" -> 9 [] ch = "A" -> 10 [] ch = "B" -> 11
      [] ch = "C" -> 12 [] ch = "D" -> 13 [] ch = "E" -> 14 [] ch = "F" -> 15

RECURSIVE ParseBytes(_, _)
ParseBytes(digits, radix) ==
    IF Len(digits) = 0 THEN 0
    ELSE (ParseBytes(SubSeq(digits, 1, Len(digits) - 1), radix) * radix)
         + HexDigit(digits[Len(digits)])

ComputedPrime == ParseBytes(PrimeHex, 16)
ComputedBits == BitLength(ComputedPrime)
ComputedBytes == (ComputedBits + (BitsPerOctet - 1)) \div BitsPerOctet

ComputedValue(c) ==
    CASE c = "PRIME_MODULUS" -> ComputedPrime
      [] c = "WORD_BITS" -> ComputedBits
      [] c = "BYTES_PER_ELEM" -> ComputedBytes

Threads == {1, 2}
CellNames == {"PRIME_MODULUS", "WORD_BITS", "BYTES_PER_ELEM"}
EntryPoints == {"InitializeParameters", "WordBitsValue", "BytesPerElemValue",
                "Hls1024Hash", "AbsorbMessageBlock", "ApplyLinearDiffusion",
                "ApplyNonLinearConfusion"}

VARIABLES
    cells,      \* the three OnceLock statics: [st, owner, val]
    todo,       \* per thread: the parameter accesses its call still has to make
    pc,         \* per thread: "idle", "run", "panicked", "deadlocked"
    ret,        \* per thread: the last parameter value a call obtained (0: none)
    torn,       \* per thread: it saw the modulus set with another cell unset
    calls,      \* per thread: the entry points called so far, each with the value
                \*   its call returned (0: not returned, or no value)
    writes,     \* per cell: how many times a value was stored into it
    op, arg, res,  \* the last direct call of a pure function, its input and output
    xof,        \* SHAKE128's output stream for the seed of DeriveConst(b"init")
    phase,      \* Hls1024Hash: "NoCall", "Uninitialized", "Absorbing",
                \*   "Finalizing", "Extracted", "Failed"
    msg,        \* the message of the running call
    blocks,     \* the blocks the for loop of line 261 has still to visit
    absorbed,   \* the blocks absorbed so far, in order
    rnd,        \* rounds done by the inner loop of line 263 for the current block
    fin,        \* passes done by the loop of FinalizeState
    hstate,     \* the local variable state of Hls1024Hash
    trace,      \* the operations the running call has performed
    digest,     \* the value the last call returned
    hist        \* <<message, digest>> of every completed call, in order

tvars == <<todo, pc, ret, torn, calls>>
fvars == <<op, arg, res>>
hvars == <<xof, phase, msg, blocks, absorbed, rnd, fin, hstate, trace, digest, hist>>
vars == <<cells, writes, todo, pc, ret, torn, calls, op, arg, res,
          xof, phase, msg, blocks, absorbed, rnd, fin, hstate, trace, digest, hist>>

UnsetCell == [st |-> "unset", owner |-> 0, val |-> 0]
SetCell(v) == [st |-> "set", owner |-> 0, val |-> v]
RunningCell(t) == [st |-> "running", owner |-> t, val |-> 0]

\* OnceLock::get
CellGet(c) == IF cells[c].st = "set" THEN cells[c].val ELSE 0
IsSome(c) == cells[c].st = "set"

OpIP == [k |-> "IP", c |-> "-", v |-> 0]
OpSet(c, v) == [k |-> "set", c |-> c, v |-> v]
OpGoi(c) == [k |-> "goi", c |-> c, v |-> 0]
OpUnwrap(c) == [k |-> "unwrap", c |-> c, v |-> 0]

\* the parameter accesses of each entry point, in program order
EntryOps(e) ==
    CASE e = "InitializeParameters" -> <<OpIP>>
      [] e = "WordBitsValue" -> <<OpGoi("WORD_BITS")>>
      [] e = "BytesPerElemValue" -> <<OpGoi("BYTES_PER_ELEM")>>
      [] e = "AbsorbMessageBlock" -> <<OpGoi("WORD_BITS"), OpUnwrap("PRIME_MODULUS")>>
      [] e = "ApplyLinearDiffusion" -> <<OpGoi("WORD_BITS"), OpUnwrap("PRIME_MODULUS")>>
      [] e = "ApplyNonLinearConfusion" -> <<OpUnwrap("PRIME_MODULUS")>>
      [] e = "Hls1024Hash" ->
            <<OpIP, OpUnwrap("PRIME_MODULUS"), OpIP, OpGoi("BYTES_PER_ELEM"),
              OpGoi("WORD_BITS"), OpUnwrap("PRIME_MODULUS"),
              OpIP, OpGoi("BYTES_PER_ELEM")>>

\* a panic unwinds through the get_or_init closures of the thread: their
\* cells are poisoned, which OnceLock treats as not initialised
Unwind(t) ==
    [c \in CellNames |->
        IF cells[c].st = "running" /\ cells[c].owner = t THEN UnsetCell ELSE cells[c]]

Head1(t) == todo[t][1]
Running(t, k) == pc[t] = "run" /\ Len(todo[t]) > 0 /\ Head1(t).k = k

Call(t) ==
    /\ pc[t] = "idle"
    /\ Len(calls[t]) < MaxCalls
    /\ \E e \in EntryPoints :
          /\ todo' = [todo EXCEPT ![t] = EntryOps(e)]
          /\ calls' = [calls EXCEPT ![t] = Append(@, [e |-> e, v |-> 0])]
    /\ pc' = [pc EXCEPT ![t] = "run"]
    /\ ret' = [ret EXCEPT ![t] = 0]
    /\ UNCHANGED <<cells, torn, writes, fvars, hvars>>

\* InitializeParameters, line 51: the check, and the computation of the
\* three values; the three set calls follow as steps of their own
DoIP(t) ==
    /\ Running(t, "IP")
    /\ IF IsSome("PRIME_MODULUS")
       THEN /\ todo' = [todo EXCEPT ![t] = Tail(@)]
            /\ torn' = [torn EXCEPT ![t] =
                           @ \/ ~IsSome("WORD_BITS") \/ ~IsSome("BYTES_PER_ELEM")]
       ELSE /\ todo' = [todo EXCEPT ![t] =
                           <<OpSet("PRIME_MODULUS", ComputedPrime),
                             OpSet("WORD_BITS", ComputedBits),
                             OpSet("BYTES_PER_ELEM", ComputedBytes)>> \o Tail(@)]
            /\ torn' = torn
    /\ UNCHANGED <<cells, pc, ret, calls, writes, fvars, hvars>>

\* OnceLock::set(v).ok()
DoSet(t) ==
    /\ Running(t, "set")
    /\ LET c == Head1(t).c
           v == Head1(t).v
       IN  CASE cells[c].st = "set" ->
                   /\ todo' = [todo EXCEPT ![t] = Tail(@)]
                   /\ UNCHANGED <<cells, pc, writes>>
             [] cells[c].st = "unset" ->
                   /\ cells' = [cells EXCEPT ![c] = SetCell(v)]
                   /\ writes' = [writes EXCEPT ![c] = @ + 1]
                   /\ todo' = [todo EXCEPT ![t] = Tail(@)]
                   /\ UNCHANGED pc
             [] cells[c].st = "running" /\ cells[c].owner = t ->
                   \* re-entrant initialisation: unspecified, deadlock or panic
                   \/ /\ pc' = [pc EXCEPT ![t] = "deadlocked"]
                      /\ UNCHANGED <<cells, todo, writes>>
                   \/ /\ pc' = [pc EXCEPT ![t] = "panicked"]
                      /\ cells' = Unwind(t)
                      /\ UNCHANGED <<todo, writes>>
             [] cells[c].st = "running" /\ cells[c].owner # t ->
                   \* blocks until the other thread's initialiser is done
                   FALSE
    /\ UNCHANGED <<ret, torn, calls, fvars, hvars>>

\* OnceLock::get_or_init(|| { InitializeParameters(); *CELL.get().unwrap() })
DoGoi(t) ==
    /\ Running(t, "goi")
    /\ LET c == Head1(t).c
       IN  CASE cells[c].st = "set" ->
                   /\ ret' = [ret EXCEPT ![t] = cells[c].val]
                   /\ todo' = [todo EXCEPT ![t] = Tail(@)]
                   /\ UNCHANGED <<cells, pc>>
             [] cells[c].st = "unset" ->
                   /\ cells' = [cells EXCEPT ![c] = RunningCell(t)]
                   /\ todo' = [todo EXCEPT ![t] = <<OpIP, OpUnwrap(c)>> \o Tail(@)]
                   /\ UNCHANGED <<ret, pc>>
             [] cells[c].st = "running" ->
                   \* blocks until the running initialiser is done
                   FALSE
    /\ UNCHANGED <<torn, calls, writes, fvars, hvars>>

\* CELL.get().unwrap(): the value, or a panic on None
DoUnwrap(t) ==
    /\ Running(t, "unwrap")
    /\ LET c == Head1(t).c
       IN  IF IsSome(c)
           THEN /\ ret' = [ret EXCEPT ![t] = CellGet(c)]
                /\ todo' = [todo EXCEPT ![t] = Tail(@)]
                /\ UNCHANGED <<cells, pc>>
           ELSE /\ pc' = [pc EXCEPT ![t] = "panicked"]
                /\ cells' = Unwind(t)
                /\ UNCHANGED <<todo, ret>>
    /\ UNCHANGED <<torn, calls, writes, fvars, hvars>>

Return(t) ==
    /\ pc[t] = "run"
    /\ todo[t] = <<>>
    /\ pc' = [pc EXCEPT ![t] = "idle"]
    /\ calls' = [calls EXCEPT ![t] = [@ EXCEPT ![Len(@)].v = ret[t]]]
    /\ UNCHANGED <<cells, todo, ret, torn, writes, fvars, hvars>>

\* ------------------------------------------------------- core transforms
Min(a, b) == IF a < b THEN a ELSE b

\* isize::rem_euclid
RemEuclid(a, n) == ((a % n) + n) % n

\* slice::chunks
RECURSIVE Chunks(_, _)
Chunks(bs, n) ==
    IF Len(bs) = 0 THEN <<>>
    ELSE <<SubSeq(bs, 1, Min(n, Len(bs)))>>
         \o Chunks(SubSeq(bs, Min(n, Len(bs)) + 1, Len(bs)), n)

RECURSIVE Flatten(_)
Flatten(ss) == IF Len(ss) = 0 THEN <<>> ELSE Head(ss) \o Flatten(Tail(ss))

\* mutant: the pad length is computed for one marker byte instead of two
SplitIntoBlocksOneMarker(message) ==
    LET l == Len(message)
        rate == BlockBytes
        padlen == RemEuclid((0 - l) - 1, rate)
        padded == message \o <<PadFirst>> \o Zeros(padlen) \o <<PadLast>>
    IN  Chunks(padded, rate)

\* mutant: the 0x01 marker is written as a zero byte
SplitIntoBlocksZeroMarker(message) ==
    LET l == Len(message)
        rate == BlockBytes
        padlen == RemEuclid((0 - l) - 2, rate)
        padded == message \o <<0>> \o Zeros(padlen) \o <<PadLast>>
    IN  Chunks(padded, rate)

SplitIntoBlocks(message) ==
    LET l == Len(message)
        rate == BlockBytes
        padlen == RemEuclid((0 - l) - 2, rate)
        padded == message \o <<PadFirst>> \o Zeros(padlen) \o <<PadLast>>
    IN  Chunks(padded, rate)

Rol(x, r, bits) ==
    LET rr == r % bits
        mask == Shl(1, bits) - 1
    IN  BitAnd(BitOr(Shl(x, rr), Shr(x, bits - rr)), mask)

\* mutant: the words are folded in from the last to the first
RECURSIVE AbsorbLoopReversed(_, _, _, _, _)
AbsorbLoopReversed(s, words, i, wb, prime) ==
    IF i >= Len(words) THEN s
    ELSE LET j == (Len(words) - 1) - i
             w == words[j + 1]
             idx == j % Len(s)
             s1 == [s EXCEPT ![idx + 1] = (s[idx + 1] + w) % prime]
             next_idx == (idx + 1) % Len(s)
             shift == Shr(w, AbsorbShift)
             mask == Shl(1, wb) - 1
             s2 == [s1 EXCEPT ![next_idx + 1] = BitXor(s1[next_idx + 1], BitAnd(shift, mask))]
         IN  AbsorbLoopReversed(s2, words, i + 1, wb, prime)

\* the loop of lines 154-165, from word i (0-based) on
RECURSIVE AbsorbLoop(_, _, _, _, _)
AbsorbLoop(s, words, i, wb, prime) ==
    IF i >= Len(words) THEN s
    ELSE LET w == words[i + 1]
             idx == i % Len(s)
             s1 == [s EXCEPT ![idx + 1] = (s[idx + 1] + w) % prime]
             next_idx == (idx + 1) % Len(s)
             shift == Shr(w, AbsorbShift)
             mask == Shl(1, wb) - 1
             s2 == [s1 EXCEPT ![next_idx + 1] = BitXor(s1[next_idx + 1], BitAnd(shift, mask))]
         IN  AbsorbLoop(s2, words, i + 1, wb, prime)

AbsorbMessageBlock(state, block, wb, prime) ==
    LET padded == IF Len(block) % WordBytes # 0
                  THEN block \o Zeros(WordBytes - (Len(block) % WordBytes))
                  ELSE block
        chunks == Chunks(padded, WordBytes)
        words == [i \in 1..Len(chunks) |-> FromBytesBE(chunks[i])]
    IN  AbsorbLoop(state, words, 0, wb, prime)

\* mutant: the loop writes into the vector it reads
RECURSIVE DiffuseLoopInPlace(_, _, _, _, _)
DiffuseLoopInPlace(state, out, i, wb, prime) ==
    LET n == Len(state)
    IN  IF i >= n THEN state
        ELSE LET a == state[i + 1]
                 b == state[((i + 1) % n) + 1]
                 c == state[((i + 7) % n) + 1]
                 mix == (a + BitXor(b, Shr(c, DiffuseShift))) % prime
             IN  DiffuseLoopInPlace([state EXCEPT ![i + 1] = Rol(mix, (i * RolStep) % wb, wb)],
                                    out, i + 1, wb, prime)

\* the loop of lines 176-182, from index i (0-based) on: reads state, writes out
RECURSIVE DiffuseLoop(_, _, _, _, _)
DiffuseLoop(state, out, i, wb, prime) ==
    LET n == Len(state)
    IN  IF i >= n THEN out
        ELSE LET a == state[i + 1]
                 b == state[((i + 1) % n) + 1]
                 c == state[((i + 7) % n) + 1]
                 mix == (a + BitXor(b, Shr(c, DiffuseShift))) % prime
             IN  DiffuseLoop(state,
                             [out EXCEPT ![i + 1] = Rol(mix, (i * RolStep) % wb, wb)],
                             i + 1, wb, prime)

ApplyLinearDiffusion(state, wb, prime) ==
    DiffuseLoop(state, Zeros(Len(state)), 0, wb, prime)

ApplyNonLinearConfusion(state, prime) ==
    [i \in 1..Len(state) |->
        (ModPow(state[i], 3, prime) + ModPow(state[i], 5, prime) + ConfuseAdd) % prime]

PerformRound(state, wb, prime) ==
    LET s == ApplyLinearDiffusion(state, wb, prime)
    IN  ApplyNonLinearConfusion(s, prime)

\* SHAKE128 squeezed to count * bytes_per_int bytes, cut into big-endian integers
ShakeInts(stream, count, bytes_per_int) ==
    LET raw == SubSeq(stream, 1, count * bytes_per_int)
    IN  [i \in 1..count |->
            FromBytesBE(SubSeq(raw, ((i - 1) * bytes_per_int) + 1, i * bytes_per_int))]

DeriveConst(stream, n, bytes_per_int, prime) ==
    LET ints == ShakeInts(stream, n, bytes_per_int)
    IN  [i \in 1..n |-> ints[i] % prime]

InitializeState(stream, bytes_per_int, prime) ==
    DeriveConst(stream, StateSize, bytes_per_int, prime)

\* the bytes ExtractDigest feeds to SHAKE256 for one element
FullBytes(v, bpe) ==
    LET bytes == ToBytesBE(v)
    IN  IF Len(bytes) < bpe THEN Zeros(bpe - Len(bytes)) \o bytes ELSE bytes

ExtractDigest(state, bpe) ==
    [xof |-> "Shake256",
     seed |-> <<SeedString, "::extract">>,
     input |-> Flatten([i \in 1..Len(state) |-> FullBytes(state[i], bpe)]),
     len |-> OutputBitLength \div 8]

\* --------------------------------------------------------- initial states
CellsUnset ==
    /\ cells = [c \in CellNames |-> UnsetCell]
    /\ writes = [c \in CellNames |-> 0]

\* the cells after a first InitializeParameters
CellsReady ==
    /\ cells = [c \in CellNames |-> SetCell(ComputedValue(c))]
    /\ writes = [c \in CellNames |-> 1]

ThreadsIdle ==
    /\ todo = [t \in Threads |-> <<>>]
    /\ pc = [t \in Threads |-> "idle"]
    /\ ret = [t \in Threads |-> 0]
    /\ torn = [t \in Threads |-> FALSE]
    /\ calls = [t \in Threads |-> <<>>]

PureIdle ==
    /\ op = "none"
    /\ arg = <<>>
    /\ res = <<>>

NoDigest == [xof |-> "none", seed |-> <<>>, input |-> <<>>, len |-> 0]

HashIdle ==
    /\ phase = "NoCall"
    /\ msg = <<>>
    /\ blocks = <<>>
    /\ absorbed = <<>>
    /\ rnd = 0
    /\ fin = 0
    /\ hstate = <<>>
    /\ trace = <<>>
    /\ digest = NoDigest
    /\ hist = <<>>

\* ------------------------------------- direct calls of the pub functions
WordBitsNow == cells["WORD_BITS"].val
PrimeNow == cells["PRIME_MODULUS"].val

TestVec(a, b) == [i \in 1..StateSize |-> ((a * i * i) + b) % (2 ^ ComputedBits)]

TestStates ==
    {TestVec(a, b) : a \in {0, 1, 2731, 30011}, b \in {0, 5, ComputedPrime - 1}}
    \cup {[i \in 1..StateSize |-> ((a * i * i) + b) % ComputedPrime] :
              a \in {977, 20011}, b \in {3, ComputedPrime - 19}}

TestBlock(len, a, b) ==
    [i \in 1..len |-> ((a * i) + (b * ((i - 1) \div WordBytes)) + ((i * i) \div 7)) % ByteBase]

TestBlocks ==
    {TestBlock(len, a, b) : len \in {0, 3, 8, 21, BlockBytes - 1, BlockBytes},
                            a \in {0, 1, 3}, b \in {0, 1}}

Filler(n) == [i \in 1..n |-> ByteBase - 1]

RECURSIVE Tails(_)
Tails(n) ==
    IF n = 0 THEN {<<>>}
    ELSE Tails(n - 1)
         \cup {Append(t, b) : t \in {u \in Tails(n - 1) : Len(u) = n - 1},
                              b \in {0, PadFirst, PadLast}}

PadLens == {0, BlockBytes - 3, BlockBytes - 2, BlockBytes - 1, BlockBytes}

PadMsgs == {Filler(n) \o t : n \in PadLens, t \in Tails(MaxTail)}

CallRol ==
    /\ op = "none"
    /\ \E bits \in 1..MaxBits, r \in 0..(2 * MaxBits), x \in 0..((2 ^ (MaxBits + 1)) - 1) :
          /\ op' = "Rol"
          /\ arg' = [x |-> x, r |-> r, bits |-> bits]
          /\ res' = Rol(x, r, bits)
    /\ UNCHANGED <<cells, writes, tvars, hvars>>

CallAbsorbMessageBlock ==
    /\ op = "none"
    /\ \E s \in TestStates, block \in TestBlocks :
          /\ op' = "AbsorbMessageBlock"
          /\ arg' = [state |-> s, block |-> block]
          /\ res' = AbsorbMessageBlock(s, block, WordBitsNow, PrimeNow)
    /\ UNCHANGED <<cells, writes, tvars, hvars>>

CallApplyLinearDiffusion ==
    /\ op = "none"
    /\ \E s \in TestStates, n \in 1..StateSize :
          /\ op' = "ApplyLinearDiffusion"
          /\ arg' = [state |-> SubSeq(s, 1, n)]
          /\ res' = ApplyLinearDiffusion(SubSeq(s, 1, n), WordBitsNow, PrimeNow)
    /\ UNCHANGED <<cells, writes, tvars, hvars>>

CallPerformRound ==
    /\ op = "none"
    /\ \E s \in TestStates :
          /\ op' = "PerformRound"
          /\ arg' = [state |-> s]
          /\ res' = PerformRound(s, WordBitsNow, PrimeNow)
    /\ UNCHANGED <<cells, writes, tvars, hvars>>

CallSplitIntoBlocks ==
    /\ op = "none"
    /\ \E m1 \in PadMsgs, m2 \in PadMsgs :
          /\ op' = "SplitIntoBlocks"
          /\ arg' = <<m1, m2>>
          /\ res' = <<SplitIntoBlocks(m1), SplitIntoBlocks(m2)>>
    /\ UNCHANGED <<cells, writes, tvars, hvars>>

InitPure == CellsReady /\ ThreadsIdle /\ PureIdle /\ HashIdle /\ xof = <<>>

NextPure ==
    \/ CallRol
    \/ CallAbsorbMessageBlock
    \/ CallApplyLinearDiffusion
    \/ CallPerformRound
    \/ CallSplitIntoBlocks

SpecPure == InitPure /\ [][NextPure]_vars

\* ------------------------------------------------------------------ C4
PaddedForm(m, flat) ==
    \E padlen \in 0..(BlockBytes - 1) :
        flat = m \o <<PadFirst>> \o Zeros(padlen) \o <<PadLast>>

\* C4: SplitIntoBlocks yields message || 0x01 || padlen zero bytes || 0x80
\* with 0 <= padlen < 64; the padded length is a positive multiple of 64
\* and at least 2 more than the message length; every block has exactly 64
\* bytes.
PaddingAndSplitting ==
    op = "SplitIntoBlocks" =>
        \A k \in 1..2 :
            LET m == arg[k]
                bl == res[k]
                flat == Flatten(bl)
            IN  /\ PaddedForm(m, flat)
                /\ Len(flat) > 0
                /\ Len(flat) % BlockBytes = 0
                /\ Len(flat) >= Len(m) + 2
                /\ Len(bl) >= 1
                /\ Len(bl) * BlockBytes = Len(flat)
                /\ \A i \in 1..Len(bl) : Len(bl[i]) = BlockBytes

PaddingWitness ==
    /\ op = "SplitIntoBlocks"
    /\ Len(arg[1]) = BlockBytes - 1
    /\ Len(res[1]) = 2
    /\ Len(arg[2]) = 0
    /\ Len(res[2]) = 1

\* ----------------------------------------------------------------- C10
RECURSIVE DropTrailingZeros(_)
DropTrailingZeros(bs) ==
    IF Len(bs) > 0 /\ bs[Len(bs)] = 0
    THEN DropTrailingZeros(SubSeq(bs, 1, Len(bs) - 1))
    ELSE bs

\* drop the final 0x80, the trailing zero bytes and the last 0x01
Unpad(flat) ==
    LET a == SubSeq(flat, 1, Len(flat) - 1)
        b == DropTrailingZeros(a)
    IN  SubSeq(b, 1, Len(b) - 1)

\* C10: different messages give different block sequences, and the message
\* is recovered from the blocks by dropping the final 0x80, the trailing
\* zero bytes and the last 0x01.
PaddingInjective ==
    op = "SplitIntoBlocks" =>
        /\ (arg[1] # arg[2] => res[1] # res[2])
        /\ \A k \in 1..2 : Unpad(Flatten(res[k])) = arg[k]

InjectiveWitness ==
    /\ op = "SplitIntoBlocks"
    /\ Len(arg[1]) = BlockBytes - 2
    /\ arg[2] = arg[1] \o <<PadFirst, 0>>
    /\ res[1] # res[2]

\* ------------------------------------------------------------------ C7
DiffuseAt(s, i) ==
    LET n == Len(s)
        mix == (s[i + 1] + BitXor(s[((i + 1) % n) + 1], Shr(s[((i + 7) % n) + 1], 3)))
               % ComputedPrime
    IN  Rol(mix, (i * 3) % ComputedBits, ComputedBits)

\* C7: every element i of ApplyLinearDiffusion(s) is
\* RotateLeft((s[i] + (s[(i+1) mod n] XOR (s[(i+7) mod n] >> 3))) mod P,
\* (i*3) mod WordBits, WordBits) over the unmodified input s, wrap-around
\* indices included, and PerformRound applies Confuse to that completed
\* output.
DiffuseReadsInput ==
    /\ op = "ApplyLinearDiffusion" =>
          /\ Len(res) = Len(arg.state)
          /\ \A i \in 0..(Len(arg.state) - 1) : res[i + 1] = DiffuseAt(arg.state, i)
    /\ op = "PerformRound" =>
          res = ApplyNonLinearConfusion(
                    [k \in 1..Len(arg.state) |-> DiffuseAt(arg.state, k - 1)],
                    ComputedPrime)

DiffuseWitness ==
    /\ op = "ApplyLinearDiffusion"
    /\ Len(arg.state) = StateSize
    /\ res[1] # arg.state[1]
    /\ res[2] # arg.state[2]
    /\ res[StateSize] = DiffuseAt(arg.state, StateSize - 1)

\* ------------------------------------------------------------------ C8
PadToWord(block) ==
    IF Len(block) % 8 = 0 THEN block
    ELSE block \o Zeros(8 - (Len(block) % 8))

\* word j (0-based) of the block, big-endian
WordOf(block, j) ==
    LET bs == PadToWord(block)
        at(k) == bs[(8 * j) + k]
    IN  (at(1) * (ByteBase ^ 7)) + (at(2) * (ByteBase ^ 6)) + (at(3) * (ByteBase ^ 5))
        + (at(4) * (ByteBase ^ 4)) + (at(5) * (ByteBase ^ 3)) + (at(6) * (ByteBase ^ 2))
        + (at(7) * ByteBase) + at(8)

XorPart(block, j) ==
    BitAnd(Shr(WordOf(block, j), AbsorbShift), (2 ^ ComputedBits) - 1)

AbsorbAt(s, block, i) ==
    LET nw == Len(PadToWord(block)) \div 8
    IN  IF nw = 0 \/ i > nw THEN s[i + 1]
        ELSE IF i = 0 THEN (s[1] + WordOf(block, 0)) % ComputedPrime
        ELSE IF i < nw
             THEN (BitXor(s[i + 1], XorPart(block, i - 1)) + WordOf(block, i)) % ComputedPrime
        ELSE BitXor(s[i + 1], XorPart(block, nw - 1))

\* C8: AbsorbMessageBlock folds the big-endian 8-byte words in, in order:
\* result[0] = (s[0] + w0) mod P, result[i] = ((s[i] XOR (w(i-1) >> 16))
\* + w(i)) mod P for the further words, the position after the last word is
\* s XOR (w_last >> 16), every later position is unchanged; a block whose
\* length is not a multiple of 8 counts as zero-padded on the right.
AbsorbIsOrderedFold ==
    op = "AbsorbMessageBlock" =>
        /\ Len(res) = Len(arg.state)
        /\ \A i \in 0..(Len(arg.state) - 1) : res[i + 1] = AbsorbAt(arg.state, arg.block, i)
        /\ res = AbsorbMessageBlock(arg.state, PadToWord(arg.block), ComputedBits, ComputedPrime)

AbsorbWitness ==
    /\ op = "AbsorbMessageBlock"
    /\ Len(arg.block) = BlockBytes
    /\ \A i \in 0..8 : res[i + 1] # arg.state[i + 1]
    /\ res[10] = arg.state[10]
    /\ XorPart(arg.block, 0) # 0

\* ------------------------------------------------------------------ C9
CyclicRotl(low, k, bits) ==
    ((low * (2 ^ k)) % (2 ^ bits)) + (low \div (2 ^ (bits - k)))

\* C9: for every bits > 0, every r and every x >= 0, also x >= 2^bits,
\* Rol(x, r, bits) is the cyclic left rotation by r mod bits of the low
\* bits bits of x; the result is below 2^bits, a rotation by a multiple of
\* bits returns x mod 2^bits, and rotating by r and then by bits - r
\* returns the low bits.
RolIsFixedWidthRotation ==
    op = "Rol" =>
        LET low == arg.x % (2 ^ arg.bits)
            k == arg.r % arg.bits
        IN  /\ res = CyclicRotl(low, k, arg.bits)
            /\ res < 2 ^ arg.bits
            /\ (k = 0 => res = low)
            /\ Rol(res, arg.bits - k, arg.bits) = low

\* ----------------------------------------- parameter cells under threads
ThreadStep(t) ==
    \/ Call(t)
    \/ DoIP(t)
    \/ DoSet(t)
    \/ DoGoi(t)
    \/ DoUnwrap(t)
    \/ Return(t)

InitParams == CellsUnset /\ ThreadsIdle /\ PureIdle /\ HashIdle /\ xof = <<>>

NextParams == \E t \in Threads : ThreadStep(t)

SpecParams == InitParams /\ [][NextParams]_vars

NextSingle == ThreadStep(1)

SpecSingle == InitParams /\ [][NextSingle]_vars

Failed(t) == pc[t] \in {"panicked", "deadlocked"}

\* t waits in set or get_or_init for a cell whose initialiser will never end
BlockedForever(t) ==
    /\ pc[t] = "run"
    /\ Len(todo[t]) > 0
    /\ Head1(t).k \in {"set", "goi"}
    /\ cells[Head1(t).c].st = "running"
    /\ cells[Head1(t).c].owner # t
    /\ Failed(cells[Head1(t).c].owner)

AllSet == \A c \in CellNames : cells[c] = SetCell(ComputedValue(c))

InitTriggers ==
    {"InitializeParameters", "WordBitsValue", "BytesPerElemValue", "Hls1024Hash"}

\* C2: when several threads start from the uninitialised state and run
\* entry points concurrently, each cell receives exactly one value, no
\* caller sees the modulus set while WordBits or BytesPerElem is unset, no
\* caller panics or deadlocks, none blocks forever, and every caller that has
\* returned leaves the three cells set.
ConcurrentFirstUseSafe ==
    (\A t \in Threads : \A i \in 1..Len(calls[t]) : calls[t][i].e \in InitTriggers) =>
        /\ \A c \in CellNames : writes[c] <= 1
        /\ \A t \in Threads :
              /\ ~Failed(t)
              /\ ~BlockedForever(t)
              /\ ~torn[t]
              /\ (pc[t] = "idle" /\ Len(calls[t]) >= 1) => AllSet

\* C3: in a single thread, whichever entry point is called first, the call
\* completes with the modulus, WordBits and BytesPerElem set, and no later
\* access stores into a cell again.
FirstAccessInitializes ==
    /\ pc[1] # "panicked"
    /\ pc[1] # "deadlocked"
    /\ (pc[1] = "idle" /\ Len(calls[1]) >= 1) =>
          /\ AllSet
          /\ \A c \in CellNames : writes[c] = 1

\* --------------------------------------------------------- Hls1024Hash
\* InitializeParameters run to its end by the only thread there is
InitializeParametersDone(cs) ==
    IF cs["PRIME_MODULUS"].st = "set" THEN cs
    ELSE [c \in CellNames |->
             IF cs[c].st = "set" THEN cs[c] ELSE SetCell(ComputedValue(c))]

WritesAfter(cs, ws) ==
    IF cs["PRIME_MODULUS"].st = "set" THEN ws
    ELSE [c \in CellNames |-> IF cs[c].st = "set" THEN ws[c] ELSE ws[c] + 1]

\* what unwrap and get_or_init need in order to return
ParamsReady(cs) == \A c \in CellNames : cs[c].st = "set"

XofStream(k) ==
    [i \in 1..(StateSize * ComputedBytes) |->
        (((i * i * k) \div 3) + ((i \div 5) * (i \div 2)) + (k * i)) % ByteBase]

XofOutputs == {XofStream(k) : k \in {1, 2}}

HashMsg(n, a) == [i \in 1..n |-> (((a * i) \div 5) + a) % ByteBase]

\* a message that fills one block with its two padding bytes; the six bytes
\* before the padding are the high part of the last word of the block
LastWordMsg == HashMsg(BlockBytes - WordBytes, 3) \o <<3, 0, 1, 3, 2, 1>>

HashMsgs ==
    {HashMsg(0, 0), HashMsg(5, 1), LastWordMsg, HashMsg(BlockBytes - 1, 2)}

HashCall ==
    /\ phase \in {"NoCall", "Extracted"}
    /\ Len(hist) < MaxHashCalls
    /\ \E m \in HashMsgs : msg' = m
    /\ phase' = "Uninitialized"
    /\ blocks' = <<>>
    /\ absorbed' = <<>>
    /\ rnd' = 0
    /\ fin' = 0
    /\ hstate' = <<>>
    /\ trace' = <<>>
    /\ digest' = NoDigest
    /\ UNCHANGED <<cells, writes, tvars, fvars, xof, hist>>

\* the position of Hls1024Hash in its code: which statement runs next
AtInitializeState == phase = "Uninitialized"
AtAbsorb == phase = "Absorbing" /\ rnd = RoundCount /\ blocks # <<>>
AtRound == phase = "Absorbing" /\ rnd < RoundCount
AtFinalizeState == phase = "Absorbing" /\ rnd = RoundCount /\ blocks = <<>>
AtFinalizePass == phase = "Finalizing" /\ fin < FinalizePasses
AtExtractDigest == phase = "Finalizing" /\ fin = FinalizePasses

\* mutant: the element width is read before the parameters are initialised
DoInitializeStateEarlyRead ==
    /\ AtInitializeState
    /\ cells' = InitializeParametersDone(cells)
    /\ writes' = WritesAfter(cells, writes)
    /\ IF ParamsReady(cells')
       THEN /\ hstate' = InitializeState(xof,
                             IF cells["BYTES_PER_ELEM"].st = "set"
                             THEN cells["BYTES_PER_ELEM"].val ELSE 1,
                             cells'["PRIME_MODULUS"].val)
            /\ blocks' = SplitIntoBlocks(msg)
            /\ rnd' = RoundCount
            /\ trace' = Append(trace, "InitializeState")
            /\ phase' = "Absorbing"
       ELSE /\ phase' = "Failed"
            /\ UNCHANGED <<hstate, blocks, rnd, trace>>
    /\ UNCHANGED <<tvars, fvars, xof, msg, absorbed, fin, digest, hist>>

\* line 259, and the evaluation of SplitIntoBlocks(message) of line 261
DoInitializeState ==
    /\ AtInitializeState
    /\ cells' = InitializeParametersDone(cells)
    /\ writes' = WritesAfter(cells, writes)
    /\ IF ParamsReady(cells')
       THEN /\ hstate' = InitializeState(xof, cells'["BYTES_PER_ELEM"].val,
                                         cells'["PRIME_MODULUS"].val)
            /\ blocks' = SplitIntoBlocks(msg)
            /\ rnd' = RoundCount
            /\ trace' = Append(trace, "InitializeState")
            /\ phase' = "Absorbing"
       ELSE /\ phase' = "Failed"
            /\ UNCHANGED <<hstate, blocks, rnd, trace>>
    /\ UNCHANGED <<tvars, fvars, xof, msg, absorbed, fin, digest, hist>>

\* line 262: the next block of the for loop
DoAbsorbMessageBlock ==
    /\ AtAbsorb
    /\ IF ParamsReady(cells)
       THEN /\ hstate' = AbsorbMessageBlock(hstate, Head(blocks), WordBitsNow, PrimeNow)
            /\ absorbed' = Append(absorbed, Head(blocks))
            /\ blocks' = Tail(blocks)
            /\ rnd' = 0
            /\ trace' = Append(trace, "AbsorbMessageBlock")
            /\ phase' = phase
       ELSE /\ phase' = "Failed"
            /\ UNCHANGED <<hstate, absorbed, blocks, rnd, trace>>
    /\ UNCHANGED <<cells, writes, tvars, fvars, xof, msg, fin, digest, hist>>

\* lines 263-265: one iteration of the inner loop
DoPerformRound ==
    /\ AtRound
    /\ IF ParamsReady(cells)
       THEN /\ hstate' = PerformRound(hstate, WordBitsNow, PrimeNow)
            /\ rnd' = rnd + 1
            /\ trace' = Append(trace, "PerformRound")
            /\ phase' = phase
       ELSE /\ phase' = "Failed"
            /\ UNCHANGED <<hstate, rnd, trace>>
    /\ UNCHANGED <<cells, writes, tvars, fvars, xof, msg, blocks, absorbed, fin, digest, hist>>

\* mutant: FinalizeState is entered before the rounds of the last block are done
DoFinalizeStateEarly ==
    /\ phase = "Absorbing"
    /\ blocks = <<>>
    /\ phase' = "Finalizing"
    /\ fin' = 0
    /\ UNCHANGED <<cells, writes, tvars, fvars, xof, msg, blocks, absorbed, rnd,
                   hstate, trace, digest, hist>>

\* line 268 and line 208: the for loop is over, FinalizeState is entered
DoFinalizeState ==
    /\ AtFinalizeState
    /\ phase' = "Finalizing"
    /\ fin' = 0
    /\ UNCHANGED <<cells, writes, tvars, fvars, xof, msg, blocks, absorbed, rnd,
                   hstate, trace, digest, hist>>

\* lines 209-212: one iteration of the loop of FinalizeState
DoFinalizePass ==
    /\ AtFinalizePass
    /\ IF ParamsReady(cells)
       THEN /\ hstate' = ApplyNonLinearConfusion(
                             ApplyLinearDiffusion(hstate, WordBitsNow, PrimeNow), PrimeNow)
            /\ fin' = fin + 1
            /\ trace' = trace \o <<"ApplyLinearDiffusion", "ApplyNonLinearConfusion">>
            /\ phase' = phase
       ELSE /\ phase' = "Failed"
            /\ UNCHANGED <<hstate, fin, trace>>
    /\ UNCHANGED <<cells, writes, tvars, fvars, xof, msg, blocks, absorbed, rnd, digest, hist>>

\* line 269: the digest is returned
DoExtractDigest ==
    /\ AtExtractDigest
    /\ cells' = InitializeParametersDone(cells)
    /\ writes' = WritesAfter(cells, writes)
    /\ IF ParamsReady(cells')
       THEN /\ digest' = ExtractDigest(hstate, cells'["BYTES_PER_ELEM"].val)
            /\ hist' = Append(hist, <<msg, digest'>>)
            /\ trace' = Append(trace, "ExtractDigest")
            /\ phase' = "Extracted"
       ELSE /\ phase' = "Failed"
            /\ UNCHANGED <<digest, hist, trace>>
    /\ UNCHANGED <<tvars, fvars, xof, msg, blocks, absorbed, rnd, fin, hstate>>

Init == CellsUnset /\ ThreadsIdle /\ PureIdle /\ HashIdle /\ xof \in XofOutputs

Next ==
    \/ HashCall
    \/ DoInitializeState
    \/ DoAbsorbMessageBlock
    \/ DoPerformRound
    \/ DoFinalizeState
    \/ DoFinalizePass
    \/ DoExtractDigest

Spec == Init /\ [][Next]_vars

\* ------------------------------------------------------------------ C1
\* C1: at every observable point of Hls1024Hash (after InitializeState,
\* after every AbsorbMessageBlock, after every PerformRound, after
\* FinalizeState) the state has exactly StateSize (512) elements and every
\* element e satisfies 0 <= e < P.
StateElementsBelowPrime ==
    phase \in {"Absorbing", "Finalizing", "Extracted"} =>
        /\ Len(hstate) = StateSize
        /\ \A i \in 1..Len(hstate) : 0 <= hstate[i] /\ hstate[i] < ComputedPrime

\* ------------------------------------------------------------------ C5
NumBlocks(L) == (L + 2 + 63) \div 64

Rep(n, ss) == [i \in 1..(n * Len(ss)) |-> ss[((i - 1) % Len(ss)) + 1]]

BlockOps == <<"AbsorbMessageBlock">> \o Rep(16, <<"PerformRound">>)

ExpectedTrace(L) ==
    <<"InitializeState">>
    \o Rep(NumBlocks(L), BlockOps)
    \o Rep(4, <<"ApplyLinearDiffusion", "ApplyNonLinearConfusion">>)
    \o <<"ExtractDigest">>

IsPrefix(a, b) == Len(a) <= Len(b) /\ a = SubSeq(b, 1, Len(a))

PaddedRef(m) ==
    m \o <<1>> \o Zeros(((64 * NumBlocks(Len(m))) - Len(m)) - 2) \o <<PadLast>>

RoundsDone ==
    Cardinality({i \in 1..Len(trace) :
                    trace[i] \in {"PerformRound", "ApplyNonLinearConfusion"}})

\* a running call has a statement to run next: every action of the call is
\* its position followed by assignments that can always be made
HasNextStatement ==
    \/ AtInitializeState
    \/ AtAbsorb
    \/ AtRound
    \/ AtFinalizeState
    \/ AtFinalizePass
    \/ AtExtractDigest

PipelineShape ==
    LET nb == NumBlocks(Len(msg))
        absorbEnd == 1 + (17 * nb)
    IN  /\ phase # "Failed"
        /\ phase \in {"Uninitialized", "Absorbing", "Finalizing"} => HasNextStatement
        /\ IsPrefix(trace, ExpectedTrace(Len(msg)))
        /\ IsPrefix(Flatten(absorbed), PaddedRef(msg))
        /\ \A i \in 1..Len(absorbed) : Len(absorbed[i]) = 64
        /\ phase \in {"NoCall", "Uninitialized"} => trace = <<>>
        /\ phase = "Absorbing" => Len(trace) >= 1 /\ Len(trace) <= absorbEnd
        /\ phase = "Finalizing" =>
              /\ Len(trace) >= absorbEnd
              /\ Len(trace) < Len(ExpectedTrace(Len(msg)))
              /\ Len(absorbed) = nb
        /\ phase = "Extracted" =>
              /\ trace = ExpectedTrace(Len(msg))
              /\ Len(absorbed) = nb
              /\ RoundsDone = (16 * nb) + 4

PhaseForward ==
    \/ phase' = phase /\ phase \in {"Absorbing", "Finalizing"} /\ Len(trace') > Len(trace)
    \/ <<phase, phase'>> \in {<<"NoCall", "Uninitialized">>,
                              <<"Uninitialized", "Absorbing">>,
                              <<"Absorbing", "Finalizing">>,
                              <<"Finalizing", "Extracted">>}
    \/ phase = "Extracted" /\ phase' = "Uninitialized" /\ trace' = <<>>

\* C5: a call performs InitializeState once, then for each block in input
\* order one AbsorbMessageBlock followed by exactly 16 PerformRound, then
\* exactly 4 (Diffuse, Confuse) passes, then ExtractDigest once; the phases
\* Uninitialized, Absorbing, Finalizing, Extracted are passed in this order
\* without a back-edge or an error, and every call reaches Extracted, after
\* 16 * ceil((L+2)/64) + 4 rounds.  Reaching Extracted is stated for a
\* call that runs without interruption: a running call always has a next
\* statement, each of its steps extends the trace or moves to the next
\* phase, and the trace never leaves the expected one, which is finite.
PipelineOrdering ==
    /\ []PipelineShape
    /\ [][PhaseForward]_vars

PipelineWitness ==
    /\ phase = "Extracted"
    /\ Len(msg) = BlockBytes - 1
    /\ Len(absorbed) = 2
    /\ RoundsDone = 36
    /\ Len(hist) = 2

\* ------------------------------------------------------------------ C6
\* C6: two calls of Hls1024Hash with the same message return the same
\* digest of 128 bytes, also when the first of them initialised the
\* parameters and whatever was hashed between them.
HashDeterministic ==
    \A i \in 1..Len(hist) :
        /\ hist[i][2].len = 128
        /\ \A j \in 1..Len(hist) : hist[i][1] = hist[j][1] => hist[i][2] = hist[j][2]

DeterminismWitness ==
    /\ Len(hist) = 3
    /\ hist[1][1] = hist[3][1]
    /\ hist[2][1] # hist[1][1]
    /\ hist[1][2] # hist[2][2]
    /\ hist[1][2] = hist[3][2]

====
